---- MODULE Spec2Model ----
(***************************************************************************)
(* A model of hugegraph_llm's CommitToKg operator                          *)
(* (operators/hugegraph_op/commit_to_hugegraph.py): one invocation of run  *)
(* against a graph store, entity by entity.  The store client             *)
(* (pyhugegraph), the property enums and default_value_map are imported    *)
(* by that file; they are modelled from the design document's description. *)
(***************************************************************************)
EXTENDS Integers, Sequences, FiniteSets, TLC

(***************************************************************************)
(* Bounds of the model.                                                    *)
(***************************************************************************)
MaxVertices == 2
MaxEdges == 1
MaxTriples == 2
MaxRuns == 2
\* the reranker: the longest result list, the highest score, the largest topk tried
\* beside the default one
MaxLen == 3
MaxScore == 2
MaxTopk == 2

(***************************************************************************)
(* Python values.  A scalar is [t, n]: its runtime type and a stand-in for *)
(* its content (n = 0 is the falsy value of the type: False, 0, 0.0, "").  *)
(* A list carries its items.  None is the value dict.get gives for an      *)
(* absent key.                                                             *)
(***************************************************************************)
V(t, n) == [t |-> t, n |-> n, items |-> <<>>]
L(items) == [t |-> "list", n |-> 0, items |-> items]
None == V("none", 0)
\* a string whose content matters (the names of the triples)
Text(s) == [t |-> "str", n |-> IF s = "" THEN 0 ELSE 1, items |-> <<>>, text |-> s]

\* bool(value), as `not input_properties.get(pk)` evaluates it
Truthy(v) ==
    IF v.t = "list" THEN Len(v.items) > 0
    ELSE IF v.t = "none" THEN FALSE
    ELSE v.n # 0

\* isinstance(value, cls); bool is a subclass of int in Python
IsInstance(v, cls) ==
    IF cls = "int" THEN v.t \in {"int", "bool"}
    ELSE v.t = cls

(***************************************************************************)
(* Python dicts keep insertion order: a dict is a sequence of              *)
(* [k |-> key, v |-> value] with distinct keys.                            *)
(***************************************************************************)
Range(s) == {s[i] : i \in 1..Len(s)}
Keys(d) == {d[i].k : i \in 1..Len(d)}
HasKey(d, k) == k \in Keys(d)
KeyIndex(d, k) == CHOOSE i \in 1..Len(d) : d[i].k = k
DictGet(d, k) == IF HasKey(d, k) THEN d[KeyIndex(d, k)].v ELSE None
DictSet(d, k, v) ==
    IF HasKey(d, k)
    THEN [d EXCEPT ![KeyIndex(d, k)] = [k |-> k, v |-> v]]
    ELSE Append(d, [k |-> k, v |-> v])

(***************************************************************************)
(* PropertyDataType, PropertyCardinality and default_value_map             *)
(* (hugegraph_llm.enums).                                                  *)
(***************************************************************************)
DataTypes ==
    {"BOOLEAN", "BYTE", "INT", "LONG", "FLOAT", "DOUBLE", "TEXT", "BLOB", "DATE", "UUID"}
Cardinalities == {"SINGLE", "LIST", "SET"}

\* the zero value of a scalar data type; NoDefault for a type outside the enum
NoDefault == V("error", 0)
default_value_map(data_type) ==
    CASE data_type = "BOOLEAN" -> V("bool", 0)
      [] data_type \in {"BYTE", "INT", "LONG"} -> V("int", 0)
      [] data_type \in {"FLOAT", "DOUBLE"} -> V("float", 0)
      [] data_type \in {"TEXT", "BLOB", "DATE", "UUID"} -> V("str", 0)
      [] OTHER -> NoDefault

(***************************************************************************)
(* _check_property_data_type: "ok" (True), "bad" (False) or "raise"        *)
(* (ValueError: Unknown data type).                                        *)
(***************************************************************************)
CheckSingle(data_type, value) ==
    CASE data_type = "BOOLEAN" -> IF IsInstance(value, "bool") THEN "ok" ELSE "bad"
      [] data_type \in {"BYTE", "INT", "LONG"} ->
            IF IsInstance(value, "int") THEN "ok" ELSE "bad"
      [] data_type \in {"FLOAT", "DOUBLE"} ->
            IF IsInstance(value, "float") THEN "ok" ELSE "bad"
      [] data_type \in {"TEXT", "BLOB"} -> IF IsInstance(value, "str") THEN "ok" ELSE "bad"
      [] data_type = "DATE" -> IF IsInstance(value, "str") THEN "ok" ELSE "bad"
      [] data_type = "UUID" -> IF IsInstance(value, "str") THEN "ok" ELSE "bad"
      [] OTHER -> "raise"

\* the loop over the items of a list value: the first item that is not "ok" decides
RECURSIVE CheckItems(_, _, _)
CheckItems(data_type, items, i) ==
    IF i > Len(items) THEN "ok"
    ELSE LET r == CheckSingle(data_type, items[i])
         IN IF r = "ok" THEN CheckItems(data_type, items, i + 1) ELSE r

ListCardinalities == {"LIST", "SET"}

check_property_data_type(data_type, cardinality, value) ==
    IF cardinality \in ListCardinalities
    THEN IF ~IsInstance(value, "list") THEN "bad"
         ELSE CheckItems(data_type, value.items, 1)
    ELSE CheckSingle(data_type, value)

(***************************************************************************)
(* The schema document.  schema.given is the truth value of the document   *)
(* (`not schema` at run's mode selection).                                 *)
(***************************************************************************)
PropertyKey(name, data_type, cardinality) ==
    [name |-> name, data_type |-> data_type, cardinality |-> cardinality]
VertexLabel(name, properties, primary_keys, nullable_keys) ==
    [name |-> name, properties |-> properties, primary_keys |-> primary_keys,
     nullable_keys |-> nullable_keys]
EdgeLabel(name, source_label, target_label, properties) ==
    [name |-> name, source_label |-> source_label, target_label |-> target_label,
     properties |-> properties]
NoSchema ==
    [given |-> FALSE, propertykeys |-> <<>>, vertexlabels |-> <<>>, edgelabels |-> <<>>]

\* {x["name"]: x for x in labels}: a later entry of the same name replaces an earlier one
Names(labels) == {labels[i].name : i \in 1..Len(labels)}
LabelMap(labels, name) ==
    labels[CHOOSE i \in 1..Len(labels) :
              /\ labels[i].name = name
              /\ \A j \in (i + 1)..Len(labels) : labels[j].name # name]

\* [key for key in vertex_label["properties"] if key not in nullable_keys]
RECURSIVE Filter(_, _)
Filter(s, keep) ==
    IF s = <<>> THEN <<>>
    ELSE IF Head(s) \in keep THEN <<Head(s)>> \o Filter(Tail(s), keep)
    ELSE Filter(Tail(s), keep)
non_null_keys(vertex_label) ==
    Filter(vertex_label.properties,
           Range(vertex_label.properties) \ Range(vertex_label.nullable_keys))

(***************************************************************************)
(* load_into_graph, one vertex.  Each step takes and gives                 *)
(* [st, props]: the record's properties (mutated in place by the code) and *)
(* "ok", "problem" (has_problem) or the exception that left the step.      *)
(***************************************************************************)
Step(st, props) == [st |-> st, props |-> props]

\* the cardinality test of lines 87 and 100 written as `!= LIST`
IsNotList(cardinality) == cardinality # "LIST"
\* the value injected for an absent key: lines 85-90 and 98-106
IsSingle(cardinality) == cardinality = "SINGLE"
InjectedDefault(p_label) ==
    IF IsSingle(p_label.cardinality)
    THEN default_value_map(p_label.data_type)
    ELSE L(<<>>)

\* property_label_map[key], then the injection; the lookup of an undeclared key and
\* default_value_map of an unknown type leave the step with an exception
Inject(props, key, schema) ==
    IF key \notin Names(schema.propertykeys) THEN Step("KeyError", props)
    ELSE LET d == InjectedDefault(LabelMap(schema.propertykeys, key))
         IN IF d = NoDefault THEN Step("NoDefaultValue", props)
            ELSE Step("ok", DictSet(props, key, d))

\* `if not input_properties.get(pk)`
PkMissing(props, pk) == ~Truthy(DictGet(props, pk))
\* the length test of line 81 taken for an emptiness test
CannotDefaultIfNoKeys(primary_keys) == Len(primary_keys) = 0
\* `if len(primary_keys) == 1`
CannotDefault(primary_keys) == Len(primary_keys) = 1

\* 2. Handle primary-keys mode vertex
RECURSIVE PrimaryKeyStep(_, _, _, _)
PrimaryKeyStep(props, primary_keys, i, schema) ==
    IF i > Len(primary_keys) THEN Step("ok", props)
    ELSE IF ~PkMissing(props, primary_keys[i])
         THEN PrimaryKeyStep(props, primary_keys, i + 1, schema)
    ELSE IF CannotDefault(primary_keys) THEN Step("problem", props)
    ELSE LET r == Inject(props, primary_keys[i], schema)
         IN IF r.st = "ok"
            THEN PrimaryKeyStep(r.props, primary_keys, i + 1, schema)
            ELSE r

\* the membership test of line 97 written like the one of line 80
NeedsDefaultIfEmpty(props, key) == ~Truthy(DictGet(props, key))
\* `if key not in input_properties`
NeedsDefault(props, key) == ~HasKey(props, key)

\* 3. Ensure all non-nullable props are set
RECURSIVE NonNullStep(_, _, _, _)
NonNullStep(props, keys, i, schema) ==
    IF i > Len(keys) THEN Step("ok", props)
    ELSE IF ~NeedsDefault(props, keys[i]) THEN NonNullStep(props, keys, i + 1, schema)
    ELSE LET r == Inject(props, keys[i], schema)
         IN IF r.st = "ok" THEN NonNullStep(r.props, keys, i + 1, schema) ELSE r

\* 4. Check all data type value is right
RECURSIVE TypeCheckStep(_, _, _)
TypeCheckStep(props, i, schema) ==
    IF i > Len(props) THEN Step("ok", props)
    ELSE IF props[i].k \notin Names(schema.propertykeys) THEN Step("KeyError", props)
    ELSE LET p_label == LabelMap(schema.propertykeys, props[i].k)
             r == check_property_data_type(p_label.data_type, p_label.cardinality,
                                           props[i].v)
         IN CASE r = "ok" -> TypeCheckStep(props, i + 1, schema)
              [] r = "bad" -> Step("problem", props)
              [] OTHER -> Step("UnknownDataType", props)

\* the steps with the defaults of step 3 injected before the primary keys are looked at
ValidateDefaultsFirst(vertex, schema) ==
    IF vertex.label \notin Names(schema.vertexlabels)
    THEN Step("skip_label", vertex.properties)
    ELSE LET vertex_label == LabelMap(schema.vertexlabels, vertex.label)
             nn == NonNullStep(vertex.properties, non_null_keys(vertex_label), 1, schema)
         IN IF nn.st # "ok" THEN nn
            ELSE LET pk == PrimaryKeyStep(nn.props, vertex_label.primary_keys, 1, schema)
                 IN IF pk.st = "problem" THEN Step("skip_pk", pk.props)
                    ELSE IF pk.st # "ok" THEN pk
                    ELSE LET tc == TypeCheckStep(pk.props, 1, schema)
                         IN IF tc.st = "problem" THEN Step("skip_type", tc.props)
                            ELSE IF tc.st # "ok" THEN tc
                            ELSE Step("submit", tc.props)

\* steps 1-4 for one vertex record: what becomes of it and of its properties.
\* st: "skip_label", "skip_pk", "skip_type", "submit", or the exception raised
Validate(vertex, schema) ==
    IF vertex.label \notin Names(schema.vertexlabels)
    THEN Step("skip_label", vertex.properties)
    ELSE LET vertex_label == LabelMap(schema.vertexlabels, vertex.label)
             pk == PrimaryKeyStep(vertex.properties, vertex_label.primary_keys, 1, schema)
         IN IF pk.st = "problem" THEN Step("skip_pk", pk.props)
            ELSE IF pk.st # "ok" THEN pk
            ELSE LET nn == NonNullStep(pk.props, non_null_keys(vertex_label), 1, schema)
                 IN IF nn.st # "ok" THEN nn
                    ELSE LET tc == TypeCheckStep(nn.props, 1, schema)
                         IN IF tc.st = "problem" THEN Step("skip_type", tc.props)
                            ELSE IF tc.st # "ok" THEN tc
                            ELSE Step("submit", tc.props)

Exceptions == {"KeyError", "NoDefaultValue", "UnknownDataType"}

(***************************************************************************)
(* The graph store behind PyHugeClient: the schema definitions it holds    *)
(* (in creation order) and the ids of its vertices and the edges.          *)
(***************************************************************************)
EmptyStore ==
    [propertykeys |-> <<>>, vertexlabels |-> <<>>, edgelabels |-> <<>>,
     indexlabels |-> <<>>, vertices |-> {}, edges |-> {}]

\* builder.create(): the definition is added
Create(defs, d) == Append(defs, d)
\* builder.ifNotExist().create(): nothing happens when the name is already defined
IfNotExistCreate(defs, d) == IF d.name \in Names(defs) THEN defs ELSE Create(defs, d)

\* vertex ids
NoId == [kind |-> "none", name |-> "", key |-> <<>>]
CustomId(s) == [kind |-> "custom", name |-> s, key |-> <<>>]
GivenId(s) == [kind |-> "given", name |-> s, key |-> <<>>]
RECURSIVE KeyValues(_, _)
KeyValues(props, primary_keys) ==
    IF primary_keys = <<>> THEN <<>>
    ELSE <<DictGet(props, Head(primary_keys))>> \o KeyValues(props, Tail(primary_keys))
\* primary-key id strategy: the id the store gives derives from the label and key values
StoreId(label, props, schema) ==
    [kind |-> "store", name |-> label,
     key |-> KeyValues(props, LabelMap(schema.vertexlabels, label).primary_keys)]

StoreErrors == {"NotFoundError", "CreateError"}
StoreResults == {"ok"} \cup StoreErrors

(***************************************************************************)
(* The calls issued to the store during the current invocation.           *)
(***************************************************************************)
SchemaCall(op, name, idx) ==
    [op |-> op, name |-> name, props |-> <<>>, id |-> NoId, outV |-> NoId, inV |-> NoId,
     idx |-> idx, ok |-> TRUE]
AddVertexCall(label, props, id, idx, ok) ==
    [op |-> "addVertex", name |-> label, props |-> props, id |-> id, outV |-> NoId,
     inV |-> NoId, idx |-> idx, ok |-> ok]
AddEdgeCall(label, outV, inV, props, idx, ok) ==
    [op |-> "addEdge", name |-> label, props |-> props, id |-> NoId, outV |-> outV,
     inV |-> inV, idx |-> idx, ok |-> ok]
SchemaOps == {"propertyKey", "vertexLabel", "edgeLabel", "indexLabel"}
EntityOps == {"addVertex", "addEdge"}

(***************************************************************************)
(* init_schema_if_need and _create_property.  Each takes and gives         *)
(* [store, calls].                                                         *)
(***************************************************************************)
\* the store-native type _create_property declares; "" where it returns early,
\* "default" where it calls no as<Type>() (boolean)
NativeType(data_type) ==
    CASE data_type = "BOOLEAN" -> "default"
      [] data_type \in {"BYTE", "INT"} -> "int"
      [] data_type = "LONG" -> "long"
      [] data_type \in {"FLOAT", "DOUBLE"} -> "double"
      [] data_type \in {"TEXT", "BLOB", "UUID"} -> "text"
      [] data_type = "DATE" -> "date"
      [] OTHER -> ""
NativeCardinality(cardinality) ==
    CASE cardinality = "SINGLE" -> "single"
      [] cardinality = "LIST" -> "list"
      [] cardinality = "SET" -> "set"
      [] OTHER -> ""

\* property_key.ifNotExist().create()
CreatePropertyKey(defs, d) == IfNotExistCreate(defs, d)
\* the builder chain of line 162 without ifNotExist()
CreateVertexLabelAlways(defs, d) == Create(defs, d)
\* self.schema.vertexLabel(...)...ifNotExist().create()
CreateVertexLabel(defs, d) == IfNotExistCreate(defs, d)
\* self.schema.edgeLabel(...)...ifNotExist().create()
CreateEdgeLabel(defs, d) == IfNotExistCreate(defs, d)
\* self.schema.indexLabel(...)...ifNotExist().create()
CreateIndexLabel(defs, d) == IfNotExistCreate(defs, d)

create_property(sc, prop, idx) ==
    IF NativeType(prop.data_type) = "" \/ NativeCardinality(prop.cardinality) = ""
    THEN sc
    ELSE [store |-> [sc.store EXCEPT !.propertykeys =
                        CreatePropertyKey(@, [name |-> prop.name,
                                              native |-> NativeType(prop.data_type),
                                              cardinality |->
                                                  NativeCardinality(prop.cardinality)])],
          calls |-> Append(sc.calls, SchemaCall("propertyKey", prop.name, idx))]

RECURSIVE CreateProperties(_, _, _)
CreateProperties(sc, properties, i) ==
    IF i > Len(properties) THEN sc
    ELSE CreateProperties(create_property(sc, properties[i], i), properties, i + 1)

RECURSIVE CreateVertexLabels(_, _, _)
CreateVertexLabels(sc, vertices, i) ==
    IF i > Len(vertices) THEN sc
    ELSE CreateVertexLabels(
            [store |-> [sc.store EXCEPT !.vertexlabels =
                           CreateVertexLabel(@, [name |-> vertices[i].name,
                                                 properties |-> vertices[i].properties,
                                                 nullable_keys |-> vertices[i].nullable_keys,
                                                 id_strategy |-> "primary_key",
                                                 primary_keys |-> vertices[i].primary_keys])],
             calls |-> Append(sc.calls, SchemaCall("vertexLabel", vertices[i].name, i))],
            vertices, i + 1)

RECURSIVE CreateEdgeLabels(_, _, _)
CreateEdgeLabels(sc, edges, i) ==
    IF i > Len(edges) THEN sc
    ELSE CreateEdgeLabels(
            [store |-> [sc.store EXCEPT !.edgelabels =
                           CreateEdgeLabel(@, [name |-> edges[i].name,
                                               source_label |-> edges[i].source_label,
                                               target_label |-> edges[i].target_label,
                                               properties |-> edges[i].properties,
                                               nullable_keys |-> edges[i].properties])],
             calls |-> Append(sc.calls, SchemaCall("edgeLabel", edges[i].name, i))],
            edges, i + 1)

\* the three loops of init_schema_if_need with the labels before the property keys
init_schema_labels_first(sc, schema) ==
    CreateProperties(
        CreateEdgeLabels(CreateVertexLabels(sc, schema.vertexlabels, 1),
                         schema.edgelabels, 1),
        schema.propertykeys, 1)

init_schema_if_need(sc, schema) ==
    CreateEdgeLabels(
        CreateVertexLabels(CreateProperties(sc, schema.propertykeys, 1),
                           schema.vertexlabels, 1),
        schema.edgelabels, 1)

\* the fixed minimal schema of schema_free_mode (lines 176-183)
FreeSchema(sc) ==
    [store |-> [sc.store EXCEPT
                  !.propertykeys = CreatePropertyKey(@, [name |-> "name", native |-> "text",
                                                         cardinality |-> "default"]),
                  !.vertexlabels = CreateVertexLabel(@, [name |-> "vertex",
                                                         properties |-> <<"name">>,
                                                         nullable_keys |-> <<>>,
                                                         id_strategy |-> "customize_string",
                                                         primary_keys |-> <<>>]),
                  !.edgelabels = CreateEdgeLabel(@, [name |-> "edge",
                                                     source_label |-> "vertex",
                                                     target_label |-> "vertex",
                                                     properties |-> <<"name">>,
                                                     nullable_keys |-> <<>>]),
                  !.indexlabels =
                      CreateIndexLabel(
                          CreateIndexLabel(@, [name |-> "vertexByName", on |-> "vertex",
                                               by |-> "name"]),
                          [name |-> "edgeByName", on |-> "edge", by |-> "name"])],
     calls |-> sc.calls \o <<SchemaCall("propertyKey", "name", 1),
                             SchemaCall("vertexLabel", "vertex", 2),
                             SchemaCall("edgeLabel", "edge", 3),
                             SchemaCall("indexLabel", "vertexByName", 4),
                             SchemaCall("indexLabel", "edgeByName", 5)>>]

(***************************************************************************)
(* The inputs of run that the model draws from.                            *)
(***************************************************************************)
SeqsUpTo(S, n) == UNION {[1..m -> S] : m \in 0..n}

\* a data type outside PropertyDataType
UnknownType == "DECIMAL"

\* a schema document: "name" is text, "opt" a nullable int, "k" has the given type.
\* Label "single" has the one primary key "name", label "multi" the two "name", "k".
Schema(data_type, cardinality) ==
    [given |-> TRUE,
     propertykeys |-> <<PropertyKey("name", "TEXT", "SINGLE"),
                        PropertyKey("k", data_type, cardinality),
                        PropertyKey("opt", "INT", "SINGLE")>>,
     vertexlabels |-> <<VertexLabel("single", <<"name", "k", "opt">>, <<"name">>, <<"opt">>),
                        VertexLabel("multi", <<"name", "k", "opt">>, <<"name", "k">>,
                                    <<"opt">>)>>,
     edgelabels |-> <<EdgeLabel("knows", "single", "multi", <<"opt">>)>>]
Schemas == {Schema(dt, c) : dt \in DataTypes \cup {UnknownType}, c \in Cardinalities}
ListSchemas == {Schema("INT", "SINGLE"), Schema("TEXT", "LIST"), Schema(UnknownType, "SET")}

Vertex(label, properties, id) == [label |-> label, properties |-> properties, id |-> id]
Edge(label, outV, inV, properties) ==
    [label |-> label, outV |-> outV, inV |-> inV, properties |-> properties]
P(k, v) == [k |-> k, v |-> v]

Scalars == {V(t, n) : t \in {"bool", "int", "float", "str"}, n \in {0, 1}}
KValues ==
    Scalars \cup {None, L(<<>>), L(<<V("int", 1)>>), L(<<V("str", 1)>>),
                  L(<<V("str", 1), V("int", 1)>>)}
NameProps == {<<>>, <<P("name", V("str", 0))>>, <<P("name", V("str", 1))>>}
KProps == {<<>>} \cup {<<P("k", v)>> : v \in KValues}

\* records that vary the primary key and the typed property
TypeRecords ==
    {Vertex(l, n \o k, NoId) : l \in {"single", "multi"}, n \in NameProps, k \in KProps}
\* records with a defect elsewhere: a wrong-typed or undeclared property after or
\* before "k", a wrong-typed empty primary key, an unknown label, an id set upstream
OtherRecords ==
    {Vertex("single", <<P("name", V("str", 1)), P("k", V("int", 1)), P("opt", V("str", 1))>>,
            NoId),
     Vertex("multi", <<P("opt", V("str", 1)), P("name", V("str", 1))>>, NoId),
     Vertex("single", <<P("name", V("str", 1)), P("zz", V("int", 1))>>, NoId),
     Vertex("multi", <<P("zz", V("int", 1)), P("k", V("int", 1))>>, NoId),
     Vertex("multi", <<P("name", V("int", 0)), P("k", V("int", 1))>>, NoId),
     Vertex("single", <<P("name", V("int", 0)), P("k", V("int", 1))>>, NoId),
     Vertex("ghost", <<P("name", V("str", 1))>>, NoId),
     Vertex("single", <<P("name", V("str", 1)), P("k", V("int", 1))>>, GivenId("old")),
     Vertex("single", <<P("name", V("str", 0))>>, GivenId("old"))}
\* records that make up the longer lists
ListRecords ==
    {Vertex("single", <<P("name", V("str", 1)), P("k", V("int", 1))>>, NoId),
     Vertex("multi", <<P("name", V("str", 1))>>, NoId),
     Vertex("single", <<P("k", V("int", 1))>>, NoId),
     Vertex("multi", <<P("name", V("str", 1)), P("k", L(<<V("str", 1)>>))>>, NoId),
     Vertex("ghost", <<P("name", V("str", 1))>>, NoId),
     Vertex("single", <<P("name", V("str", 1)), P("zz", V("int", 1))>>, NoId)}
EdgeRecords ==
    {Edge("knows", GivenId("v1"), GivenId("v2"), <<>>),
     Edge("knows", GivenId("v2"), GivenId("v9"), <<P("opt", V("str", 1))>>),
     Edge("ghost", GivenId("v1"), GivenId("v2"), <<>>)}

\* str.strip() on the strings of the model
Strip(s) ==
    CASE s = " a" -> "a"
      [] s = " p " -> "p"
      [] OTHER -> s
Names3 == {"a", " a", "b"}
Triples == {<<s, p, o>> : s \in Names3, p \in {"p", " p "}, o \in Names3}

Data(schema, vertices, edges, triples) ==
    [schema |-> schema, vertices |-> vertices, edges |-> edges, triples |-> triples]

\* nothing to commit
EmptyInputs ==
    {Data(sch, <<>>, <<>>, t) : sch \in {NoSchema, Schema("INT", "SINGLE")},
                               t \in SeqsUpTo({<<"a", "p", "b">>}, MaxTriples)}
\* no schema: the triples are committed
FreeInputs ==
    {Data(NoSchema, v, e, t) :
        v \in {<<>>, <<Vertex("single", <<P("name", V("str", 1))>>, NoId)>>},
        e \in {<<>>, <<Edge("knows", GivenId("v1"), GivenId("v2"), <<>>)>>},
        t \in SeqsUpTo(Triples, MaxTriples)} \ {Data(NoSchema, <<>>, <<>>, t) :
                                                  t \in SeqsUpTo(Triples, MaxTriples)}
\* one vertex, every declared type of "k"
TypeInputs ==
    {Data(sch, <<v>>, <<>>, <<>>) : sch \in Schemas, v \in TypeRecords \cup OtherRecords}
\* lists of vertices and edges
ListInputs ==
    {Data(sch, v, e, <<>>) : sch \in ListSchemas, v \in SeqsUpTo(ListRecords, MaxVertices),
                             e \in SeqsUpTo(EdgeRecords, MaxEdges)}
        \ {Data(sch, <<>>, <<>>, <<>>) : sch \in ListSchemas}
\* two edges, after no vertex or after two
PairInputs ==
    {Data(Schema("INT", "SINGLE"), v, <<e1, e2>>, <<>>) :
        v \in {<<>>, <<Vertex("single", <<P("name", V("str", 1)), P("k", V("int", 1))>>, NoId),
                       Vertex("multi", <<P("name", V("str", 1))>>, GivenId("old"))>>},
        e1 \in EdgeRecords, e2 \in EdgeRecords}
Inputs == EmptyInputs \cup FreeInputs \cup TypeInputs \cup ListInputs \cup PairInputs

(***************************************************************************)
(* The reranker (merge_dedup_rerank.py).  Tokenizing and the BLEU score    *)
(* are jieba's and nltk's: a query stands for the score it gives each      *)
(* candidate, a number of 0..MaxScore in place of the float.               *)
(***************************************************************************)
Candidates == {"a", "b", "c"}
Queries == [Candidates -> 0..MaxScore]
get_score(query, content) == query[content]

\* The order in which a set of strings is iterated is decided by the hashes of the
\* strings, which the interpreter seeds when the process starts: a seed stands for
\* the order it gives the candidates.
HashSeeds == {s \in [1..Cardinality(Candidates) -> Candidates] : Range(s) = Candidates}

\* the candidates as they come, duplicates kept
ListOfResults(results, seed) == results
\* list(set(results))
ListOfSet(results, seed) == SelectSeq(seed, LAMBDA c : c \in Range(results))

\* [[res, get_score(query, res)] for res in results]
ScoreList(query, results) ==
    [j \in 1..Len(results) |-> <<results[j], get_score(query, results[j])>>]

\* the place of x in a list sorted by ascending score, behind its equals
InsertAscending(sorted, x) ==
    LET k == Cardinality({j \in 1..Len(sorted) : sorted[j][2] <= x[2]})
    IN SubSeq(sorted, 1, k) \o <<x>> \o SubSeq(sorted, k + 1, Len(sorted))
\* the place of x in a list sorted by descending score, behind its equals: list.sort
\* is stable, with reverse=True as well
InsertDescending(sorted, x) ==
    LET k == Cardinality({j \in 1..Len(sorted) : sorted[j][2] >= x[2]})
    IN SubSeq(sorted, 1, k) \o <<x>> \o SubSeq(sorted, k + 1, Len(sorted))
\* result_score_list.sort(key=lambda x: x[1], reverse=True)
RECURSIVE Sort(_)
Sort(result_score_list) ==
    IF result_score_list = <<>>
    THEN <<>>
    ELSE InsertDescending(Sort(SubSeq(result_score_list, 1, Len(result_score_list) - 1)),
                          result_score_list[Len(result_score_list)])

\* [res[0] for res in result_score_list]
Firsts(result_score_list) == [j \in 1..Len(result_score_list) |-> result_score_list[j][1]]

\* _bleu_rerank, lines 62-66
bleu_rerank(query, results, seed) ==
    Firsts(Sort(ScoreList(query, ListOfSet(results, seed))))

\* a ranking that does not score: the distinct candidates as the set yields them
unscored_rerank(query, results, seed) == ListOfSet(results, seed)
\* _priority_rerank, lines 68-76
priority_rerank(query, results, seed) ==
    Firsts(Sort(ScoreList(query, ListOfSet(results, seed))))

\* self.rerank_func(query, results)
Rerank(func, query, results, seed) ==
    IF func = "_bleu_rerank"
    THEN bleu_rerank(query, results, seed)
    ELSE priority_rerank(query, results, seed)

\* results[:topk], a negative topk counting from the end
Slice(results, topk) ==
    LET n == Len(results)
        stop == IF topk >= 0
                THEN IF topk < n THEN topk ELSE n
                ELSE IF n + topk > 0 THEN n + topk ELSE 0
    IN SubSeq(results, 1, stop)

\* a constructor that takes any other policy for "bleu"
rerank_func_or_bleu(policy) ==
    IF policy = "priority" THEN "_priority_rerank" ELSE "_bleu_rerank"
\* __init__, lines 40-46: the bound method chosen for the policy, or the error raised
rerank_func(policy) ==
    CASE policy = "bleu" -> "_bleu_rerank"
      [] policy = "priority" -> "_priority_rerank"
      [] OTHER -> "ValueError"

\* topk: int = 10
DefaultTopk == 10
Policies == {"bleu", "priority", "embedding"}
TopKs == (0..MaxTopk) \cup {DefaultTopk}

\* no reranker object, and one
NoObject == [built |-> FALSE, topk |-> 0, rerank_func |-> ""]
Object(topk, func) == [built |-> TRUE, topk |-> topk, rerank_func |-> func]

\* a context: the keys it holds and their values
Context(keys, query, vector_result, graph_result) ==
    [keys |-> keys, query |-> query, vector_result |-> vector_result,
     graph_result |-> graph_result]
\* context.get(key, [])
ContextGet(context, key) == IF key \in context.keys THEN context[key] ELSE <<>>
\* context[key] = value
ContextSet(context, key, value) ==
    [context EXCEPT !.keys = @ \cup {key}, ![key] = value]

Lists == SeqsUpTo(Candidates, MaxLen)
GraphLists == {<<>>, <<"c", "a", "c", "b">>}
Contexts ==
    {Context({"query", "vector_result", "graph_result"}, q, v, g) :
        q \in Queries, v \in Lists, g \in GraphLists}
      \cup {Context({"query"}, q, <<>>, <<>>) : q \in Queries}
NoContext == Context({}, [c \in Candidates |-> 0], <<>>, <<>>)

(***************************************************************************)
(* The state: where the invocation of run stands (pc, i), the data         *)
(* document it mutates, the exception that left it (err), the store, and   *)
(* the record of the invocation: its input as given, the store's schema    *)
(* definitions when it began and the calls it has issued; the schema       *)
(* documents materialized so far (seen) and whether the one of this         *)
(* invocation was among them when it began (again).                        *)
(***************************************************************************)
VARIABLES pc, i, data, err, store, runs, input, defs0, calls, seen, again
\* The reranker: where its caller stands (rpc), the object built (self), the context
\* run was given and returns, the exception of the constructor (rerr), the hash seed
\* of the process, and what the caller asked for (the policy, the topk, the context
\* as given).
VARIABLES rpc, self, context, rerr, hashseed, asked
commitVars == <<pc, i, data, err, store, runs, input, defs0, calls, seen, again>>
rerankVars == <<rpc, self, context, rerr, hashseed, asked>>
vars == <<commitVars, rerankVars>>

SchemaDefs(st) ==
    [propertykeys |-> st.propertykeys, vertexlabels |-> st.vertexlabels,
     edgelabels |-> st.edgelabels, indexlabels |-> st.indexlabels]

\* no reranker has been built
InitRerank(seeds) ==
    /\ rpc = "start"
    /\ self = NoObject
    /\ context = NoContext
    /\ rerr = "none"
    /\ hashseed \in seeds
    /\ asked = [policy |-> "", topk |-> 0, context |-> NoContext]

InitCommit ==
    /\ pc = "idle"
    /\ i = 1
    /\ data = Data(NoSchema, <<>>, <<>>, <<>>)
    /\ err = "none"
    /\ store = EmptyStore
    /\ runs = 0
    /\ input = data
    /\ defs0 = SchemaDefs(EmptyStore)
    /\ calls = <<>>
    /\ seen = {}
    /\ again = FALSE

Init == InitCommit /\ InitRerank({<<"a", "b", "c">>})

Running == err = "none"

\* the check of line 45 with the triples counted as something to commit
BothEmptyAndNoTriples(d) == d.vertices = <<>> /\ d.edges = <<>> /\ d.triples = <<>>
\* run, lines 41-55: the empty-input check and the choice of the mode
BothEmpty(d) == d.vertices = <<>> /\ d.edges = <<>>
ModeOf(d) == IF ~d.schema.given THEN "free" ELSE "schema"
Enter(d) ==
    /\ data' = d
    /\ input' = d
    /\ runs' = runs + 1
    /\ defs0' = SchemaDefs(store)
    /\ calls' = <<>>
    /\ again' = (d.schema \in seen)
    /\ i' = 1
    /\ IF BothEmpty(d)
       THEN pc' = "entry" /\ err' = "EmptyInput"
       ELSE pc' = ModeOf(d) /\ err' = "none"
    /\ UNCHANGED <<store, seen, rerankVars>>

Run ==
    /\ pc = "idle"
    /\ \E d \in Inputs : Enter(d)

\* where the loops stand: the i-th vertex, else the first edge, else the end
EdgePos(idx, d) == IF idx <= Len(d.edges) THEN <<"edges", idx>> ELSE <<"done", 1>>
VertexPos(idx, d) == IF idx <= Len(d.vertices) THEN <<"vertices", idx>> ELSE EdgePos(1, d)
TriplePos(idx, d) == IF idx <= Len(d.triples) THEN <<"triples", idx>> ELSE <<"done", 1>>
\* `break` in the place of `continue`
BreakVertices(idx, d) == EdgePos(1, d)
\* `continue` in the loop over the vertices
ContinueVertices(idx, d) == VertexPos(idx + 1, d)
\* `continue` in the loop over the edges
ContinueEdges(idx, d) == EdgePos(idx + 1, d)

Goto(pos) == pc' = pos[1] /\ i' = pos[2]

\* run, line 54
InitSchemaIfNeed ==
    /\ pc = "schema" /\ Running
    /\ LET sc == init_schema_if_need([store |-> store, calls |-> calls], data.schema)
       IN store' = sc.store /\ calls' = sc.calls
    /\ seen' = seen \cup {data.schema}
    /\ Goto(VertexPos(1, data))
    /\ UNCHANGED <<data, err, runs, input, defs0, again, rerankVars>>

\* vertex["properties"] is mutated in place; vertex["id"] = vid
SetVertex(d, idx, props, id) ==
    [d EXCEPT !.vertices[idx] = [@ EXCEPT !.properties = props, !.id = id]]

\* an id attached whatever the store answers
AttachIdAlways(old, vid, res) == vid
\* the try block of lines 119-126 under the store's answer res
AttachId(old, vid, res) == IF res = "ok" THEN vid ELSE old

\* except clauses that submit the vertex again
RetryVertex(idx, d, res) == IF res = "ok" THEN VertexPos(idx + 1, d) ELSE VertexPos(idx, d)
\* the except clauses of lines 123-126 only log: the loop goes on to the next vertex
NextVertex(idx, d, res) == VertexPos(idx + 1, d)

\* load_into_graph, one iteration of the loop over the vertices (lines 64-126)
LoadVertex ==
    /\ pc = "vertices" /\ Running
    /\ LET vertex == data.vertices[i]
           r == Validate(vertex, data.schema)
       IN CASE r.st \in Exceptions ->
                 /\ err' = r.st
                 /\ data' = SetVertex(data, i, r.props, vertex.id)
                 /\ UNCHANGED <<pc, i, store, calls>>
            [] r.st \in {"skip_label", "skip_pk", "skip_type"} ->
                 /\ data' = SetVertex(data, i, r.props, vertex.id)
                 /\ Goto(ContinueVertices(i, data))
                 /\ UNCHANGED <<err, store, calls>>
            [] OTHER ->
                 \E res \in StoreResults :
                    LET vid == StoreId(vertex.label, r.props, data.schema)
                    IN /\ calls' = Append(calls, AddVertexCall(vertex.label, r.props, NoId, i,
                                                               res = "ok"))
                       /\ data' = SetVertex(data, i, r.props, AttachId(vertex.id, vid, res))
                       /\ store' = IF res = "ok"
                                   THEN [store EXCEPT !.vertices = @ \cup {vid}]
                                   ELSE store
                       /\ Goto(NextVertex(i, data, res))
                       /\ UNCHANGED err
    /\ UNCHANGED <<runs, input, defs0, seen, again, rerankVars>>

\* the label check of line 134 followed by a type check of the edge's properties
EdgeLabelKnownAndTyped(edge, schema) ==
    /\ edge.label \in Names(schema.edgelabels)
    /\ \A j \in 1..Len(edge.properties) :
          /\ edge.properties[j].k \in Names(schema.propertykeys)
          /\ LET p_label == LabelMap(schema.propertykeys, edge.properties[j].k)
             IN check_property_data_type(p_label.data_type, p_label.cardinality,
                                         edge.properties[j].v) = "ok"
\* `if label not in edge_label_map`
EdgeLabelKnown(edge, schema) == edge.label \in Names(schema.edgelabels)

\* load_into_graph, one iteration of the loop over the edges (lines 128-143)
LoadEdge ==
    /\ pc = "edges" /\ Running
    /\ LET edge == data.edges[i]
       IN IF ~EdgeLabelKnown(edge, data.schema)
          THEN /\ Goto(ContinueEdges(i, data))
               /\ UNCHANGED <<store, calls>>
          ELSE \E res \in StoreResults :
                  /\ calls' = Append(calls, AddEdgeCall(edge.label, edge.outV, edge.inV,
                                                        edge.properties, i, res = "ok"))
                  /\ store' = IF res = "ok"
                              THEN [store EXCEPT !.edges = @ \cup
                                       {[label |-> edge.label, outV |-> edge.outV,
                                         inV |-> edge.inV]}]
                              ELSE store
                  /\ Goto(EdgePos(i + 1, data))
    /\ UNCHANGED <<data, err, runs, input, defs0, seen, again, rerankVars>>

\* schema_free_mode, lines 176-183
SchemaFreeMode ==
    /\ pc = "free" /\ Running
    /\ LET sc == FreeSchema([store |-> store, calls |-> calls])
       IN store' = sc.store /\ calls' = sc.calls
    /\ Goto(TriplePos(1, data))
    /\ UNCHANGED <<data, err, runs, input, defs0, seen, again, rerankVars>>

\* the comprehension of line 186 stripping the subject and the predicate only
StripAllButObject(item) == <<Strip(item[1]), Strip(item[2]), item[3]>>
\* (element.strip() for element in item)
StripTriple(item) == <<Strip(item[1]), Strip(item[2]), Strip(item[3])>>
\* the id passed for a subject or object
TripleId(name) == CustomId(name)

\* the three calls of one triple; the first that the store refuses ends them, as no
\* exception is handled in schema_free_mode
TripleCalls(item, idx, failing) ==
    LET t == StripTriple(item)
        all == <<AddVertexCall("vertex", <<P("name", Text(t[1]))>>, TripleId(t[1]), idx,
                               failing # 1),
                 AddVertexCall("vertex", <<P("name", Text(t[3]))>>, TripleId(t[3]), idx,
                               failing # 2),
                 AddEdgeCall("edge", TripleId(t[1]), TripleId(t[3]),
                             <<P("name", Text(t[2]))>>, idx, failing # 3)>>
    IN IF failing = 0 THEN all ELSE SubSeq(all, 1, failing)

\* schema_free_mode, one iteration of the loop over the triples (lines 185-189);
\* failing = 0: the store accepts the three calls
LoadTriple ==
    /\ pc = "triples" /\ Running
    /\ \E failing \in 0..3 : \E e \in StoreErrors :
          LET cs == TripleCalls(data.triples[i], i, failing)
              done == {c \in Range(cs) : c.ok}
          IN /\ calls' = calls \o cs
             /\ store' = [store EXCEPT
                            !.vertices = @ \cup {c.id : c \in {x \in done : x.op = "addVertex"}},
                            !.edges = @ \cup {[label |-> c.name, outV |-> c.outV, inV |-> c.inV] :
                                                c \in {x \in done : x.op = "addEdge"}}]
             /\ IF failing = 0
                THEN Goto(TriplePos(i + 1, data)) /\ UNCHANGED err
                ELSE err' = e /\ UNCHANGED <<pc, i>>
    /\ UNCHANGED <<data, runs, input, defs0, seen, again, rerankVars>>

Next ==
    \/ Run
    \/ InitSchemaIfNeed
    \/ LoadVertex
    \/ LoadEdge
    \/ SchemaFreeMode
    \/ LoadTriple

Spec == Init /\ [][Next]_vars

(***************************************************************************)
(* Repeated invocations against the same store: run is called again with   *)
(* the document it returned, or with another one.                          *)
(***************************************************************************)
RepeatVertices ==
    {<<Vertex("single", <<P("name", V("str", 1))>>, NoId)>>,
     <<Vertex("multi", <<P("k", V("int", 1))>>, NoId)>>}
RepeatInputs ==
    {Data(sch, v, <<Edge("knows", GivenId("v1"), GivenId("v2"), <<>>)>>, <<>>) :
        sch \in Schemas, v \in RepeatVertices}
      \cup {Data(NoSchema, v, <<>>, <<<<"a", "p", "b">>>>) : v \in RepeatVertices}
      \cup {Data(Schema("INT", "SINGLE"), <<>>, <<>>, <<>>)}
AgainInputs ==
    {Data(Schema("TEXT", "LIST"), v, <<>>, <<>>) : v \in RepeatVertices}
      \cup {Data(NoSchema, v, <<>>, <<<<"a", "p", "b">>>>) : v \in RepeatVertices}

RunFirst ==
    /\ pc = "idle"
    /\ \E d \in RepeatInputs : Enter(d)

RunAgain ==
    /\ pc = "done"
    /\ runs < MaxRuns
    /\ \E d \in {data} \cup AgainInputs : Enter(d)

NextRepeated ==
    \/ RunFirst
    \/ RunAgain
    \/ InitSchemaIfNeed
    \/ LoadVertex
    \/ LoadEdge
    \/ SchemaFreeMode
    \/ LoadTriple

SpecRepeated == Init /\ [][NextRepeated]_vars

(***************************************************************************)
(* The reranker's caller: it builds a MergeDedupRerank and calls run on a  *)
(* context.                                                                *)
(***************************************************************************)
\* MergeDedupRerank(embedding, topk, policy), lines 33-46
Construct ==
    /\ rpc = "start"
    /\ \E policy \in Policies : \E topk \in TopKs :
          LET func == rerank_func(policy)
          IN /\ asked' = [asked EXCEPT !.policy = policy, !.topk = topk]
             /\ IF func = "ValueError"
                THEN rpc' = "raised" /\ rerr' = "ValueError" /\ self' = NoObject
                ELSE rpc' = "built" /\ rerr' = "none" /\ self' = Object(topk, func)
    /\ UNCHANGED <<context, hashseed, commitVars>>

\* run, lines 48-60
RerankRun ==
    /\ rpc = "built" /\ self.built
    /\ \E c \in Contexts :
          LET query == c.query
              vector_result ==
                  Slice(Rerank(self.rerank_func, query, ContextGet(c, "vector_result"),
                               hashseed), self.topk)
              graph_result ==
                  Slice(Rerank(self.rerank_func, query, ContextGet(c, "graph_result"),
                               hashseed), self.topk)
          IN /\ context' = ContextSet(ContextSet(c, "vector_result", vector_result),
                                      "graph_result", graph_result)
             /\ asked' = [asked EXCEPT !.context = c]
    /\ rpc' = "returned"
    /\ UNCHANGED <<self, rerr, hashseed, commitVars>>

NextRerank ==
    \/ Construct
    \/ RerankRun

\* the process starts with any hash seed
InitSeeded == InitCommit /\ InitRerank(HashSeeds)

SpecRerank == InitSeeded /\ [][NextRerank]_vars

(***************************************************************************)
(* What the properties below speak of.                                     *)
(***************************************************************************)
SchemaMode == pc # "idle" /\ input.schema.given /\ pc # "entry"
FreeMode == pc # "idle" /\ ~input.schema.given /\ pc # "entry"
\* the loop over the vertices has finished its n-th iteration
Processed(n) ==
    /\ SchemaMode
    /\ n \in 1..Len(input.vertices)
    /\ \/ pc \in {"edges", "done"}
       \/ pc = "vertices" /\ i > n
\* the calls of the invocation that the n-th record of a list caused
CallsOf(op, n) == {c \in Range(calls) : c.op = op /\ c.idx = n}
\* the record's label is a vertex label of the schema, and its declaration
LabelKnown(vertex) == vertex.label \in Names(input.schema.vertexlabels)
LabelOf(vertex) == LabelMap(input.schema.vertexlabels, vertex.label)
\* neither submitted nor given an id
Dropped(n) == CallsOf("addVertex", n) = {} /\ data.vertices[n].id = input.vertices[n].id
\* a key that is absent from the properties or whose value is empty (falsy)
MissingOrEmpty(props, key) == key \notin Keys(props) \/ ~Truthy(DictGet(props, key))

(***************************************************************************)
(* C1.  A call of run whose vertices and edges are both empty raises, and  *)
(* at that moment no schema definition and no addVertex or addEdge call    *)
(* has been issued to the store, whatever schema and triples hold.         *)
(***************************************************************************)
C1_EmptyInputRaisesBeforeAnyCall ==
    (pc # "idle" /\ input.vertices = <<>> /\ input.edges = <<>>)
        => /\ err = "EmptyInput"
           /\ calls = <<>>
           /\ SchemaDefs(store) = defs0
           /\ store = EmptyStore \/ runs > 1

\* an empty commit that carries a schema and triples has raised
C1_Witness ==
    /\ err = "EmptyInput"
    /\ input.schema.given
    /\ input.triples # <<>>
    /\ input.vertices = <<>> /\ input.edges = <<>>

(***************************************************************************)
(* C2.  In schema-defined mode run raises only for an empty input or an    *)
(* unrecognized data type; a defect of a single record (unknown label,     *)
(* missing key, undeclared property name, wrong-typed value) never makes   *)
(* it raise.  A type outside the enum met by the defaulting steps is       *)
(* counted with the unrecognized data types.                               *)
(***************************************************************************)
C2_RecordDefectsNeverRaise ==
    (pc # "idle" /\ input.schema.given /\ err # "none")
        => err \in {"EmptyInput", "UnknownDataType", "NoDefaultValue"}

(***************************************************************************)
(* C3.  In both modes a not-found or create-conflict error of addVertex    *)
(* or addEdge is caught: it never leaves run.                              *)
(***************************************************************************)
C3_StoreErrorsNeverPropagate == err \notin StoreErrors

(***************************************************************************)
(* C4.  Schema-defined mode: a vertex whose label declares exactly one     *)
(* primary key and whose value for it is missing or empty is dropped: no   *)
(* addVertex call is issued for it and no id is attached to its record.    *)
(***************************************************************************)
SinglePkMissing(vertex) ==
    /\ LabelKnown(vertex)
    /\ Len(LabelOf(vertex).primary_keys) = 1
    /\ MissingOrEmpty(vertex.properties, LabelOf(vertex).primary_keys[1])

C4_SinglePkMissingDropped ==
    SchemaMode =>
        \A n \in 1..Len(input.vertices) : SinglePkMissing(input.vertices[n]) => Dropped(n)

\* such a vertex has been passed over and the vertex after it submitted
C4_Witness ==
    /\ pc = "done" /\ SchemaMode /\ err = "none"
    /\ \E n \in 1..Len(input.vertices) :
          /\ SinglePkMissing(input.vertices[n])
          /\ Processed(n)
          /\ CallsOf("addVertex", n + 1) # {}

(***************************************************************************)
(* The design document's rules, for the properties below.                  *)
(***************************************************************************)
Declared(key) == key \in Names(input.schema.propertykeys)
TypeOf(key) == LabelMap(input.schema.propertykeys, key)
\* the default for a declared type: an empty sequence for LIST and SET, the zero
\* value of the scalar type for SINGLE
ExpectedDefault(key) ==
    IF TypeOf(key).cardinality \in {"LIST", "SET"}
    THEN L(<<>>)
    ELSE default_value_map(TypeOf(key).data_type)
\* the value matches the declared (data_type, cardinality) of its key
Matches(p) ==
    /\ Declared(p.k)
    /\ check_property_data_type(TypeOf(p.k).data_type, TypeOf(p.k).cardinality, p.v) = "ok"
Mismatches(p) ==
    /\ Declared(p.k)
    /\ check_property_data_type(TypeOf(p.k).data_type, TypeOf(p.k).cardinality, p.v) = "bad"
\* a primary key of a label with several, missing or empty in the record
MultiPkMissing(vertex, pk) ==
    /\ LabelKnown(vertex)
    /\ Len(LabelOf(vertex).primary_keys) > 1
    /\ pk \in Range(LabelOf(vertex).primary_keys)
    /\ MissingOrEmpty(vertex.properties, pk)
NonNullable(vertex) ==
    Range(LabelOf(vertex).properties) \ Range(LabelOf(vertex).nullable_keys)
\* the keys the defaulting steps set in a record
Defaulted(vertex) ==
    {pk \in Range(LabelOf(vertex).primary_keys) : MultiPkMissing(vertex, pk)}
        \cup {key \in NonNullable(vertex) : key \notin Keys(vertex.properties)}
\* the record gets past the label, primary-key and non-null steps
ReachesTypeCheck(vertex) ==
    /\ LabelKnown(vertex)
    /\ ~SinglePkMissing(vertex)
    /\ \A key \in Defaulted(vertex) : Declared(key) /\ ExpectedDefault(key) # NoDefault
\* the type check, going through the properties in order, meets property j
Meets(props, j) == j \in 1..Len(props) /\ \A m \in 1..(j - 1) : Matches(props[m])

(***************************************************************************)
(* C5 as stated.  Schema-defined mode: a vertex whose label declares more  *)
(* than one primary key and that is missing one of them still gets an      *)
(* addVertex call, in which the missing key carries the default of its     *)
(* declared type.                                                          *)
(***************************************************************************)
C5_MultiPkMissingStillSubmitted ==
    SchemaMode =>
        \A n \in 1..Len(input.vertices) :
            (Processed(n) /\ LabelKnown(input.vertices[n])) =>
                \A pk \in Range(LabelOf(input.vertices[n]).primary_keys) :
                    MultiPkMissing(input.vertices[n], pk) =>
                        \E c \in CallsOf("addVertex", n) :
                            DictGet(c.props, pk) = ExpectedDefault(pk)

(***************************************************************************)
(* C5 as amended.  Such a vertex, once the loop has passed it, carries the *)
(* default of the declared type in the missing key (an empty sequence for  *)
(* LIST and SET, the zero value of the scalar type for SINGLE), and it     *)
(* gets the addVertex call, with that default, whenever every property of  *)
(* the record then matches its declared type.                              *)
(***************************************************************************)
C5_MultiPkMissingDefaulted ==
    SchemaMode =>
        \A n \in 1..Len(input.vertices) :
            (Processed(n) /\ LabelKnown(input.vertices[n])) =>
                \A pk \in Range(LabelOf(input.vertices[n]).primary_keys) :
                    MultiPkMissing(input.vertices[n], pk) =>
                        LET props == data.vertices[n].properties
                        IN /\ HasKey(props, pk)
                           /\ DictGet(props, pk) = ExpectedDefault(pk)
                           /\ (\A j \in 1..Len(props) : Matches(props[j])) =>
                                 \E c \in CallsOf("addVertex", n) :
                                    c.name = input.vertices[n].label /\ c.props = props

\* a two-key vertex without its SET-valued key was submitted with an empty sequence,
\* and one without its scalar key with the zero value
C5_Witness ==
    /\ SchemaMode
    /\ \E c \in Range(calls) :
          /\ c.op = "addVertex"
          /\ MultiPkMissing(input.vertices[c.idx], "k")
          /\ \/ TypeOf("k").cardinality = "SET" /\ DictGet(c.props, "k") = L(<<>>)
             \/ TypeOf("k").cardinality = "SINGLE" /\ DictGet(c.props, "k") = V("float", 0)

(***************************************************************************)
(* C6 as stated (its first half).  Schema-defined mode: a vertex having    *)
(* any property whose value does not match the declared type of that       *)
(* property is dropped: no addVertex call, no id attached.                 *)
(***************************************************************************)
C6_AnyMismatchDropped ==
    SchemaMode =>
        \A n \in 1..Len(input.vertices) :
            (Processed(n)
                /\ \E j \in 1..Len(input.vertices[n].properties) :
                      Mismatches(input.vertices[n].properties[j]))
            => Dropped(n)

(***************************************************************************)
(* C6 as amended.  A vertex for which the type check, run on the record as *)
(* the defaulting steps leave it, meets a value that does not match its    *)
(* declared type is dropped without raising, and every vertex the loop has *)
(* passed was validated and submitted as it is when alone in the list: the *)
(* record holds what validation makes of it, and it has its one addVertex  *)
(* call exactly when validation lets it through.                           *)
(***************************************************************************)
AloneCalls(vertex, r) ==
    IF r.st = "submit" THEN {[label |-> vertex.label, props |-> r.props]} ELSE {}

C6_MismatchDroppedAlone ==
    SchemaMode =>
        \A n \in 1..Len(input.vertices) :
            /\ (/\ ReachesTypeCheck(input.vertices[n])
                /\ n < i \/ pc # "vertices" \/ err # "none"
                /\ \E j \in 1..Len(data.vertices[n].properties) :
                      /\ Meets(data.vertices[n].properties, j)
                      /\ Mismatches(data.vertices[n].properties[j]))
               => /\ Dropped(n)
                  /\ ~(pc = "vertices" /\ i = n /\ err # "none")
            /\ Processed(n) =>
                  LET r == Validate(input.vertices[n], input.schema)
                  IN /\ data.vertices[n].properties = r.props
                     /\ {[label |-> c.name, props |-> c.props] : c \in CallsOf("addVertex", n)}
                           = AloneCalls(input.vertices[n], r)
                     /\ r.st # "submit" => Dropped(n)

\* a vertex with a mismatching value was dropped and the vertex after it submitted
C6_Witness ==
    /\ pc = "done" /\ SchemaMode
    /\ \E n \in 1..Len(input.vertices) :
          /\ ReachesTypeCheck(input.vertices[n])
          /\ \E j \in 1..Len(data.vertices[n].properties) :
                /\ Meets(data.vertices[n].properties, j)
                /\ Mismatches(data.vertices[n].properties[j])
          /\ Dropped(n)
          /\ CallsOf("addVertex", n + 1) # {}

(***************************************************************************)
(* C7.  Schema-defined mode: whenever the type check meets a property      *)
(* whose declared data type is none of the ten recognized ones, for any    *)
(* cardinality and any value, the invocation raises: the loop never gets   *)
(* past such a vertex.                                                     *)
(***************************************************************************)
MeetsUnknownType(n) ==
    /\ ReachesTypeCheck(input.vertices[n])
    /\ \E j \in 1..Len(data.vertices[n].properties) :
          /\ Meets(data.vertices[n].properties, j)
          /\ Declared(data.vertices[n].properties[j].k)
          /\ TypeOf(data.vertices[n].properties[j].k).data_type \notin DataTypes

C7_UnknownTypeAlwaysRaises ==
    SchemaMode => \A n \in 1..Len(input.vertices) : Processed(n) => ~MeetsUnknownType(n)

(***************************************************************************)
(* C8.  Schema-defined mode: every vertex submitted to the store carries a *)
(* value for every non-nullable property of its label; one absent from the *)
(* input record has the default of its declared type, and a property       *)
(* present in the input record keeps its value (an empty primary key of a  *)
(* multi-key label, which the primary-key step replaces, aside).           *)
(***************************************************************************)
C8_NonNullableAlwaysSet ==
    SchemaMode =>
        \A c \in Range(calls) :
            c.op = "addVertex" =>
                LET vertex == input.vertices[c.idx]
                IN /\ \A key \in NonNullable(vertex) :
                         /\ HasKey(c.props, key)
                         /\ key \notin Keys(vertex.properties) =>
                               DictGet(c.props, key) = ExpectedDefault(key)
                   /\ \A key \in Keys(vertex.properties) :
                         ~MultiPkMissing(vertex, key) =>
                             DictGet(c.props, key) = DictGet(vertex.properties, key)

\* a vertex without its non-nullable "k" was submitted with the zero value or the
\* empty sequence, its falsy "name" aside untouched
C8_Witness ==
    /\ SchemaMode
    /\ \E c \in Range(calls) :
          /\ c.op = "addVertex" /\ c.name = "single"
          /\ "k" \notin Keys(input.vertices[c.idx].properties)
          /\ DictGet(c.props, "k") \in {V("int", 0), L(<<>>)}

(***************************************************************************)
(* C9.  Schema materialization is idempotent: init_schema_if_need run on a *)
(* schema document that an earlier invocation has already materialized in  *)
(* the store raises nothing and leaves the store's property-key,           *)
(* vertex-label and edge-label definitions as they were: nothing           *)
(* duplicated, nothing changed.                                            *)
(***************************************************************************)
C9_MaterializationIdempotent ==
    (again /\ SchemaMode /\ pc # "schema") => SchemaDefs(store) = defs0

\* a second materialization of a document has run, on a store that held definitions
C9_Witness ==
    /\ again /\ SchemaMode /\ pc = "done" /\ err = "none"
    /\ runs = 2
    /\ Len(calls) > 3
    /\ Len(defs0.vertexlabels) = 2

(***************************************************************************)
(* C10 as stated.  Without a schema run commits the triples: when it       *)
(* returns, the store holds exactly one vertex per distinct subject or     *)
(* object string, whose id is that string.                                 *)
(***************************************************************************)
RawNames(triples) == {t[1] : t \in Range(triples)} \cup {t[3] : t \in Range(triples)}

StrippedNames(triples) == {Strip(name) : name \in RawNames(triples)}
EdgeCalls == SelectSeq(calls, LAMBDA c : c.op = "addEdge")

EdgeProcessed(n) ==
    /\ SchemaMode
    /\ n \in 1..Len(input.edges)
    /\ \/ pc = "done"
       \/ pc = "edges" /\ i > n

C11_EdgeSubmittedIffLabelKnown ==
    SchemaMode =>
        /\ data.edges = input.edges
        /\ \A n \in 1..Len(input.edges) :
              LET edge == input.edges[n]
              IN /\ \A c \in CallsOf("addEdge", n) :
                       /\ c.name = edge.label
                       /\ c.outV = edge.outV /\ c.inV = edge.inV
                       /\ c.props = edge.properties
                 /\ EdgeProcessed(n) =>
                       (CallsOf("addEdge", n) # {}
                           <=> edge.label \in Names(input.schema.edgelabels))
                 /\ ~EdgeProcessed(n) => CallsOf("addEdge", n) = {}

\* an edge whose "opt" is a string where the schema declares an int was submitted
\* although no vertex of the invocation was created
C11_Witness ==
    /\ SchemaMode /\ pc = "done"
    /\ input.vertices # <<>>
    /\ \A c \in Range(calls) : c.op = "addVertex" => ~c.ok
    /\ \E c \in Range(calls) :
          /\ c.op = "addEdge"
          /\ c.props = <<P("opt", V("str", 1))>>
          /\ c.inV = GivenId("v9")

(***************************************************************************)
(* C17.  No retry, no batching: in one schema-defined invocation at most   *)
(* one addVertex call is issued per vertex record and at most one addEdge  *)
(* call per edge record, each for a record of the input, also when the     *)
(* call fails with a not-found or create-conflict error: the failed entity *)
(* is passed over, the loop standing behind it.                            *)
(***************************************************************************)
CallIndices(op, n) == {j \in 1..Len(calls) : calls[j].op = op /\ calls[j].idx = n}
Records(op) == IF op = "addVertex" THEN input.vertices ELSE input.edges
LoopOf(op) == IF op = "addVertex" THEN "vertices" ELSE "edges"

C17_AtMostOneCallPerRecord ==
    SchemaMode =>
        \A op \in EntityOps :
            /\ \A j \in 1..Len(calls) : calls[j].op = op => calls[j].idx \in 1..Len(Records(op))
            /\ \A n \in 1..Len(Records(op)) :
                  /\ Cardinality(CallIndices(op, n)) <= 1
                  /\ (\E j \in CallIndices(op, n) : ~calls[j].ok) =>
                        ~(pc = LoopOf(op) /\ i <= n)

\* a vertex and an edge were refused by the store, once each, and the vertex after
\* the refused one was submitted
C17_Witness ==
    /\ SchemaMode /\ pc = "done"
    /\ \E j \in CallIndices("addVertex", 1) : ~calls[j].ok
    /\ Cardinality(CallIndices("addVertex", 1)) = 1
    /\ CallIndices("addVertex", 2) # {}
    /\ \E n \in 1..Len(input.edges) :
          /\ Cardinality(CallIndices("addEdge", n)) = 1
          /\ \E j \in CallIndices("addEdge", n) : ~calls[j].ok

(***************************************************************************)
(* C18.  When a schema-defined run has returned, a vertex record holds the *)
(* id the store returned for it exactly when its addVertex call succeeded; *)
(* a vertex skipped by validation or refused by the store has its id as it *)
(* was on input, absent if it was absent.                                  *)
(***************************************************************************)
Succeeded(n) == \E c \in CallsOf("addVertex", n) : c.ok
ReturnedId(n) ==
    StoreId(input.vertices[n].label, data.vertices[n].properties, input.schema)

C18_IdAttachedIffCreated ==
    (SchemaMode /\ pc = "done") =>
        \A n \in 1..Len(input.vertices) :
            /\ Succeeded(n) <=> (LabelKnown(input.vertices[n])
                                    /\ data.vertices[n].id = ReturnedId(n))
            /\ ~Succeeded(n) => data.vertices[n].id = input.vertices[n].id

\* of two vertices the first was created and got its id, the second, which came with
\* an id, was refused and kept it
C18_Witness ==
    /\ SchemaMode /\ pc = "done"
    /\ Len(input.vertices) = 2
    /\ Succeeded(1)
    /\ input.vertices[1].id = NoId /\ data.vertices[1].id = ReturnedId(1)
    /\ CallsOf("addVertex", 2) # {} /\ ~Succeeded(2)
    /\ input.vertices[2].id = GivenId("old") /\ data.vertices[2].id = GivenId("old")

(***************************************************************************)
(* C19.  The store calls of a schema-defined invocation come in this       *)
(* order: the property keys, then the vertex labels, then the edge labels, *)
(* each in the order of the schema document and all of them before the     *)
(* first addVertex; every addVertex before the first addEdge; vertices and *)
(* edges each in the order of their input lists.                           *)
(***************************************************************************)
Phase(c) ==
    CASE c.op = "propertyKey" -> 1
      [] c.op = "vertexLabel" -> 2
      [] c.op = "edgeLabel" -> 3
      [] c.op = "addVertex" -> 4
      [] c.op = "addEdge" -> 5
      [] OTHER -> 0
CallNames(op) ==
    LET cs == SelectSeq(calls, LAMBDA c : c.op = op)
    IN [j \in 1..Len(cs) |-> cs[j].name]
LabelNames(labels) == [j \in 1..Len(labels) |-> labels[j].name]

C19_CallsInOrder ==
    SchemaMode =>
        /\ \A j \in 1..Len(calls) : Phase(calls[j]) > 0
        /\ \A j, k \in 1..Len(calls) :
              j < k => /\ Phase(calls[j]) <= Phase(calls[k])
                       /\ Phase(calls[j]) = Phase(calls[k]) => calls[j].idx < calls[k].idx
        /\ pc = "schema" => calls = <<>>
        /\ pc # "schema" =>
              /\ CallNames("vertexLabel") = LabelNames(input.schema.vertexlabels)
              /\ CallNames("edgeLabel") = LabelNames(input.schema.edgelabels)
              /\ \A j \in 1..Len(input.schema.propertykeys) :
                    (input.schema.propertykeys[j].data_type \in DataTypes)
                        => \E c \in CallsOf("propertyKey", j) :
                              c.name = input.schema.propertykeys[j].name

\* three property keys, two vertex labels and an edge label were defined, then two
\* vertices submitted, then two edges
C19_Witness ==
    /\ SchemaMode /\ pc = "done"
    /\ Len(calls) = 10
    /\ Phase(calls[1]) = 1 /\ Phase(calls[4]) = 2 /\ Phase(calls[6]) = 3
    /\ calls[7].op = "addVertex" /\ calls[8].op = "addVertex"
    /\ calls[9].op = "addEdge" /\ calls[9].idx = 1
    /\ calls[10].op = "addEdge" /\ calls[10].idx = 2

(***************************************************************************)
(* C20.  Frame of a commit: run leaves the schema document, the edge       *)
(* records and the triples as they were given.  A vertex skipped because   *)
(* its label is not in the schema or because its single primary key is     *)
(* missing has its record (label, properties, id) exactly as on input.     *)
(* Only a vertex that neither check stops can have its properties changed, *)
(* and then only by a default set in a missing primary key of a multi-key  *)
(* label or in an absent non-nullable property; every other property keeps *)
(* its value, and no label changes.                                        *)
(***************************************************************************)
StoppedEarly(vertex) == ~LabelKnown(vertex) \/ SinglePkMissing(vertex)

C20_FrameOfCommit ==
    pc \notin {"idle", "entry"} =>
        /\ data.schema = input.schema
        /\ data.edges = input.edges
        /\ data.triples = input.triples
        /\ Len(data.vertices) = Len(input.vertices)
        /\ \A n \in 1..Len(input.vertices) :
              LET given == input.vertices[n]
                  now == data.vertices[n]
              IN /\ now.label = given.label
                 /\ (SchemaMode /\ StoppedEarly(given)) => now = given
                 /\ ~SchemaMode => now = given
                 /\ now.properties # given.properties =>
                       /\ SchemaMode /\ ~StoppedEarly(given)
                       /\ Keys(given.properties) \subseteq Keys(now.properties)
                       /\ \A key \in Keys(now.properties) :
                             \/ /\ key \in Keys(given.properties)
                                /\ DictGet(now.properties, key) = DictGet(given.properties, key)
                             \/ /\ key \in Defaulted(given)
                                /\ DictGet(now.properties, key) = ExpectedDefault(key)

\* of two vertices the first, without its single primary key, is as it was given, and
\* the second has had a default injected
C20_Witness ==
    /\ SchemaMode /\ pc \in {"edges", "done"}
    /\ Len(input.vertices) = 2
    /\ SinglePkMissing(input.vertices[1])
    /\ input.vertices[1].properties # <<>>
    /\ data.vertices[1] = input.vertices[1]
    /\ data.vertices[2].properties # input.vertices[2].properties

(***************************************************************************)
(* What the properties of the reranker speak of: the two result lists as   *)
(* run was given them and as it returned them.                             *)
(***************************************************************************)
ResultKeys == {"vector_result", "graph_result"}
Returned == rpc = "returned"
GivenList(key) == IF key \in asked.context.keys THEN asked.context[key] ELSE <<>>
ReturnedList(key) == context[key]
ScoreOf(content) == asked.context.query[content]
NoRepeat(s) == \A j, k \in 1..Len(s) : j # k => s[j] # s[k]
Least(m, n) == IF m < n THEN m ELSE n

(***************************************************************************)
(* C12.  For every query, every pair of result lists and every topk (a     *)
(* count, zero or more), each of the two lists that run returns has at     *)
(* most topk candidates, none of them twice, all of them from the list     *)
(* given under the same key.  The lists are treated apart: each returned   *)
(* list has as many candidates as its own input has distinct ones, up to   *)
(* topk, whatever the other list holds.                                    *)
(***************************************************************************)
C12_TruncatedDistinctFromInput ==
    Returned =>
        \A key \in ResultKeys :
            /\ key \in context.keys
            /\ Len(ReturnedList(key)) <= asked.topk
            /\ NoRepeat(ReturnedList(key))
            /\ Range(ReturnedList(key)) \subseteq Range(GivenList(key))
            /\ Len(ReturnedList(key))
                  = Least(asked.topk, Cardinality(Range(GivenList(key))))

\* a vector list with a repeated candidate and more distinct ones than topk was cut,
\* and candidate "a", given in both lists, is returned in both
C12_Witness ==
    /\ Returned
    /\ asked.topk = 2
    /\ Len(GivenList("vector_result")) = 3
    /\ ~NoRepeat(GivenList("vector_result"))
    /\ Cardinality(Range(GivenList("graph_result"))) = 3
    /\ Len(ReturnedList("graph_result")) = 2
    /\ "a" \in Range(ReturnedList("vector_result")) \cap Range(ReturnedList("graph_result"))

(***************************************************************************)
(* C13.  In each returned list the scores against the query do not         *)
(* increase from first to last, and no candidate of the input that was     *)
(* left out scores strictly higher than one that was kept.                 *)
(***************************************************************************)
C13_ScoresNonIncreasingTopK ==
    Returned =>
        \A key \in ResultKeys :
            /\ \A j, k \in 1..Len(ReturnedList(key)) :
                  j < k => ScoreOf(ReturnedList(key)[j]) >= ScoreOf(ReturnedList(key)[k])
            /\ \A out \in Range(GivenList(key)) \ Range(ReturnedList(key)) :
                  \A kept \in Range(ReturnedList(key)) : ScoreOf(out) <= ScoreOf(kept)

\* three candidates given in ascending order of score came back as the two best, the
\* best first
C13_Witness ==
    /\ Returned
    /\ asked.topk = 2
    /\ GivenList("vector_result") = <<"a", "b", "c">>
    /\ ScoreOf("a") < ScoreOf("b") /\ ScoreOf("b") < ScoreOf("c")
    /\ ReturnedList("vector_result") = <<"c", "b">>

(***************************************************************************)
(* C14.  Candidates of equal score come back in the order of their first   *)
(* occurrence in the list given: the output is decided by the query, the   *)
(* list and topk alone.                                                    *)
(***************************************************************************)
FirstIndex(s, x) == CHOOSE j \in 1..Len(s) : s[j] = x /\ \A k \in 1..(j - 1) : s[k] # x

C14_TiesKeepInputOrder ==
    Returned =>
        \A key \in ResultKeys :
            \A j, k \in 1..Len(ReturnedList(key)) :
                (j < k /\ ScoreOf(ReturnedList(key)[j]) = ScoreOf(ReturnedList(key)[k]))
                    => FirstIndex(GivenList(key), ReturnedList(key)[j])
                          < FirstIndex(GivenList(key), ReturnedList(key)[k])

(***************************************************************************)
(* C15.  A reranker built with policy "priority" returns, for every query, *)
(* pair of lists and topk, the lists that a reranker built with policy     *)
(* "bleu" returns for them in the same process.                            *)
(***************************************************************************)
C15_PriorityIsBleu ==
    Returned =>
        \A key \in ResultKeys :
            ReturnedList(key)
                = Slice(bleu_rerank(asked.context.query, GivenList(key), hashseed), asked.topk)

\* a "priority" reranker has reordered a list by score and cut it
C15_Witness ==
    /\ Returned
    /\ asked.policy = "priority"
    /\ self.rerank_func = "_priority_rerank"
    /\ Len(GivenList("vector_result")) = 3
    /\ Len(ReturnedList("vector_result")) = 2
    /\ ReturnedList("vector_result")[1] = GivenList("vector_result")[3]
    /\ ScoreOf(ReturnedList("vector_result")[1]) > ScoreOf(ReturnedList("vector_result")[2])

(***************************************************************************)
(* C16.  The constructor raises exactly when the policy is neither "bleu"  *)
(* nor "priority"; it then leaves no object, so that run is never reached  *)
(* with an unsupported policy.  With "bleu" or "priority" it never raises. *)
(***************************************************************************)
SupportedPolicies == {"bleu", "priority"}

C16_UnknownPolicyRaisesAtConstruction ==
    rpc # "start" =>
        /\ asked.policy \notin SupportedPolicies =>
              rerr = "ValueError" /\ rpc = "raised" /\ ~self.built
        /\ asked.policy \in SupportedPolicies =>
              rerr = "none" /\ rpc \in {"built", "returned"} /\ self.built
        /\ Returned => asked.policy \in SupportedPolicies

\* the constructor has raised for the policy "embedding"
C16_Witness ==
    /\ rpc = "raised"
    /\ asked.policy = "embedding"
    /\ rerr = "ValueError"
    /\ ~self.built

====
